---------------------------- MODULE Spec2Model ----------------------------
(***************************************************************************)
(* The keyword table engine of the item-sourcing page                      *)
(* (src/app/item-sourcing/page.tsx): the dataset store, the filter and     *)
(* sort effect, the infinite-scroll pagination window and the category     *)
(* selection, as one state machine over the component's React state, its   *)
(* pending timers and its registered scroll listener.                      *)
(*                                                                         *)
(* Strings are sequences of UTF-16 code units, so that toLowerCase,        *)
(* includes, parseInt and the relational operators act on them as they do  *)
(* in the program.  <<>> is the empty string.                              *)
(***************************************************************************)
EXTENDS Integers, Sequences, FiniteSets, TLC

(***************************************************************************)
(* Bounds of the model.                                                    *)
(***************************************************************************)
\* Records per generated batch in Spec (the loop of generateMockKeywords
\* runs to 500; the model runs it to MaxBatch).
MaxBatch == 52
\* Outcomes of the random generator that a load in Spec can draw.
MaxSeeds == 1
\* Dataset loads that can be in flight together.
MaxLoads == 2
\* loadMore timers that can be pending together.
MaxMoreTimers == 2
\* Records per batch in SpecFilter.
MaxLen == 2
\* Records per batch in SpecSort.
MaxSortLen == 3

(***************************************************************************)
(* Program constants.                                                      *)
(***************************************************************************)
InitialPageSize == 30
LoadIncrement == 20

(***************************************************************************)
(* String literals of the program, as code units.                          *)
(***************************************************************************)
EmptyStr == <<>>
StrAll == <<97, 108, 108>>                                   \* "all"
StrBrand == <<98, 114, 97, 110, 100>>                        \* "brand"
StrNonBrand == <<110, 111, 110, 45, 98, 114, 97, 110, 100>>  \* "non-brand"
StrCustom == <<99, 117, 115, 116, 111, 109>>                 \* "custom"
StrKwInfix == <<45, 107, 119, 45>>                           \* "-kw-"
StrBrandWord == <<48652, 47004, 46300>>                      \* U+BE0C U+B79C U+B4DC
StrKeywordWord == <<32, 53412, 50892, 46300, 32>>            \* " " U+D0A4 U+C6CC U+B4DC " "
CompLow == <<45230, 51020>>                                  \* U+B0AE U+C74C (low)
CompMedium == <<51473, 44036>>                               \* U+C911 U+AC04 (medium)
CompHigh == <<45458, 51020>>                                 \* U+B192 U+C74C (high)
TypeShopping == <<49660, 54609, 49457>>                      \* U+C1FC U+D551 U+C131
TypeInformational == <<51221, 48372, 49457>>                 \* U+C815 U+BCF4 U+C131
Preset10000 == <<49, 48, 48, 48, 48>>                        \* "10000"
Preset20000 == <<50, 48, 48, 48, 48>>                        \* "20000"

(***************************************************************************)
(* JavaScript string and number primitives used by the page.               *)
(***************************************************************************)
\* String.prototype.toLowerCase, on the code units that have a lower case
\* in the strings of the model (A-Z).
toLowerCase(s) == [i \in 1..Len(s) |-> IF s[i] \in 65..90 THEN s[i] + 32 ELSE s[i]]

\* String.prototype.includes / Array.prototype.includes on strings.
StrIncludes(s, t) == \E k \in 0..(Len(s) - Len(t)) : SubSeq(s, k + 1, k + Len(t)) = t

\* Array.prototype.includes.
includes(arr, v) == \E i \in 1..Len(arr) : arr[i] = v

\* Array.prototype.filter((item) => item !== v).
without(arr, v) == SelectSeq(arr, LAMBDA item : item # v)

\* Template-literal conversion of a non-negative integer.
RECURSIVE IntToStr(_)
IntToStr(n) == IF n < 10 THEN <<48 + n>> ELSE IntToStr(n \div 10) \o <<48 + (n % 10)>>

IsWhiteSpace(c) == c \in {9, 10, 11, 12, 13, 32, 160, 65279}
IsDigit(c) == c \in 48..57

RECURSIVE TrimStart(_)
TrimStart(s) == IF s # <<>> /\ IsWhiteSpace(Head(s)) THEN TrimStart(Tail(s)) ELSE s

RECURSIVE DigitsValue(_, _)
DigitsValue(s, acc) ==
  IF s # <<>> /\ IsDigit(Head(s)) THEN DigitsValue(Tail(s), acc * 10 + (Head(s) - 48)) ELSE acc

NaN == [nan |-> TRUE, val |-> 0]
Num(n) == [nan |-> FALSE, val |-> n]

\* Number.parseInt(s) without radix, on decimal input: leading white space
\* is skipped, one sign is read, then the longest prefix of digits; no digit
\* gives NaN.
parseInt(s) ==
  LET t == TrimStart(s)
      neg == t # <<>> /\ Head(t) = 45
      u == IF t # <<>> /\ Head(t) \in {43, 45} THEN Tail(t) ELSE t
  IN IF u # <<>> /\ IsDigit(Head(u))
       THEN Num(IF neg THEN 0 - DigitsValue(u, 0) ELSE DigitsValue(u, 0))
       ELSE NaN

\* n >= x and n <= x for a number n and a parseInt result x: every
\* comparison with NaN is false.
GreaterEq(n, x) == ~x.nan /\ n >= x.val
LessEq(n, x) == ~x.nan /\ n <= x.val

\* s < t on strings: by code units, a proper prefix is smaller.
StrLess(s, t) ==
  LET n == IF Len(s) < Len(t) THEN Len(s) ELSE Len(t)
      d == {i \in 1..n : s[i] # t[i]}
  IN IF d = {} THEN Len(s) < Len(t)
     ELSE LET i == CHOOSE j \in d : \A k \in d : j <= k IN s[i] < t[i]


(***************************************************************************)
(* The category tree (mockCategories).                                     *)
(***************************************************************************)
mockCategories ==
  <<
   [id |-> <<49>>, name |-> <<54056, 49496, 51032, 47448>>, level |-> 1,
    children |-> <<
      [id |-> <<49, 45, 49>>, name |-> <<50668, 49457, 51032, 47448>>, level |-> 2, parentId |-> <<49>>,
       children |-> <<
         [id |-> <<49, 45, 49, 45, 49>>, name |-> <<50896, 54588, 49828>>, level |-> 3, parentId |-> <<49, 45, 49>>,
          children |-> <<
            [id |-> <<49, 45, 49, 45, 49, 45, 49>>, name |-> <<48120, 45768, 32, 50896, 54588, 49828>>, level |-> 4, parentId |-> <<49, 45, 49, 45, 49>>],
            [id |-> <<49, 45, 49, 45, 49, 45, 50>>, name |-> <<47589, 49884, 32, 50896, 54588, 49828>>, level |-> 4, parentId |-> <<49, 45, 49, 45, 49>>] >>],
         [id |-> <<49, 45, 49, 45, 50>>, name |-> <<54000, 49492, 52768>>, level |-> 3, parentId |-> <<49, 45, 49>>],
         [id |-> <<49, 45, 49, 45, 51>>, name |-> <<48660, 46972, 50864, 49828, 47, 49492, 52768>>, level |-> 3, parentId |-> <<49, 45, 49>>] >>],
      [id |-> <<49, 45, 50>>, name |-> <<45224, 49457, 51032, 47448>>, level |-> 2, parentId |-> <<49>>,
       children |-> <<
         [id |-> <<49, 45, 50, 45, 49>>, name |-> <<54000, 49492, 52768>>, level |-> 3, parentId |-> <<49, 45, 50>>],
         [id |-> <<49, 45, 50, 45, 50>>, name |-> <<49492, 52768>>, level |-> 3, parentId |-> <<49, 45, 50>>],
         [id |-> <<49, 45, 50, 45, 51>>, name |-> <<48148, 51648>>, level |-> 3, parentId |-> <<49, 45, 50>>] >>] >>],
   [id |-> <<50>>, name |-> <<44032, 44396, 47, 51064, 53580, 47532, 50612>>, level |-> 1,
    children |-> <<
      [id |-> <<50, 45, 49>>, name |-> <<52840, 49892, 44032, 44396>>, level |-> 2, parentId |-> <<50>>,
       children |-> <<
         [id |-> <<50, 45, 49, 45, 49>>, name |-> <<52840, 45824>>, level |-> 3, parentId |-> <<50, 45, 49>>,
          children |-> <<
            [id |-> <<50, 45, 49, 45, 49, 45, 49>>, name |-> <<49905, 44544, 32, 52840, 45824>>, level |-> 4, parentId |-> <<50, 45, 49, 45, 49>>],
            [id |-> <<50, 45, 49, 45, 49, 45, 50>>, name |-> <<45908, 48660, 32, 52840, 45824>>, level |-> 4, parentId |-> <<50, 45, 49, 45, 49>>],
            [id |-> <<50, 45, 49, 45, 49, 45, 51>>, name |-> <<53304, 32, 52840, 45824>>, level |-> 4, parentId |-> <<50, 45, 49, 45, 49>>] >>],
         [id |-> <<50, 45, 49, 45, 50>>, name |-> <<47588, 53944, 47532, 49828>>, level |-> 3, parentId |-> <<50, 45, 49>>],
         [id |-> <<50, 45, 49, 45, 51>>, name |-> <<50743, 51109>>, level |-> 3, parentId |-> <<50, 45, 49>>] >>],
      [id |-> <<50, 45, 50>>, name |-> <<44144, 49892, 44032, 44396>>, level |-> 2, parentId |-> <<50>>,
       children |-> <<
         [id |-> <<50, 45, 50, 45, 49>>, name |-> <<49548, 54028>>, level |-> 3, parentId |-> <<50, 45, 50>>],
         [id |-> <<50, 45, 50, 45, 50>>, name |-> <<53580, 51060, 48660>>, level |-> 3, parentId |-> <<50, 45, 50>>],
         [id |-> <<50, 45, 50, 45, 51>>, name |-> <<51032, 51088>>, level |-> 3, parentId |-> <<50, 45, 50>>] >>] >>] >>

(***************************************************************************)
(* Category lookup.                                                        *)
(***************************************************************************)
\* A lookup in the given list alone, without the descent into children.
findCategoryNameTopLevel(categoryId, categories) ==
  LET hits == { i \in 1..Len(categories) : categories[i].id = categoryId }
  IN IF hits = {} THEN EmptyStr
     ELSE categories[CHOOSE i \in hits : \A j \in hits : i <= j].name
\* findCategoryName: depth-first search by identifier; "" when not found.
RECURSIVE findCategoryName(_, _)
findCategoryName(categoryId, categories) ==
  IF categories = <<>> THEN EmptyStr
  ELSE LET category == Head(categories)
       IN IF category.id = categoryId THEN category.name
          ELSE LET name == IF "children" \in DOMAIN category
                             THEN findCategoryName(categoryId, category.children)
                             ELSE EmptyStr
               IN IF name # EmptyStr THEN name
                  ELSE findCategoryName(categoryId, Tail(categories))

\* The nodes of a category list and of everything below it, in tree order.
RECURSIVE AllCategories(_)
AllCategories(categories) ==
  IF categories = <<>> THEN <<>>
  ELSE LET category == Head(categories)
       IN <<category>>
          \o (IF "children" \in DOMAIN category THEN AllCategories(category.children) ELSE <<>>)
          \o AllCategories(Tail(categories))

\* The category object an option list refers to.  categoryOptions holds
\* references to nodes of mockCategories; the model holds their identifiers
\* (unique in the tree) and resolves them here.
RECURSIVE FindCategory(_, _)
FindCategory(id, categories) ==
  LET category == Head(categories)
      below == IF "children" \in DOMAIN category
                 THEN FindCategory(id, category.children) ELSE <<>>
  IN IF categories = <<>> THEN <<>>
     ELSE IF category.id = id THEN <<category>>
     ELSE IF below # <<>> THEN below
     ELSE FindCategory(id, Tail(categories))

CategoryById(id) == FindCategory(id, mockCategories)[1]

CategoryIds(categories) == [i \in 1..Len(categories) |-> categories[i].id]

(***************************************************************************)
(* Sorting.  Array.prototype.sort is stable; it is modelled as a stable    *)
(* merge sort under the comparator the call site passes.                   *)
(***************************************************************************)
\* The type of keyword[key] for the property names the page sorts by; a
\* property the Keyword record does not have reads as undefined.
KeyType(key) ==
  CASE key \in {"searchVolume", "productCount"} -> "number"
    [] key \in {"id", "name", "competitionLevel", "searchType"} -> "string"
    [] key = "isBrand" -> "boolean"
    [] OTHER -> "undefined"

\* a[key] < b[key]: numbers numerically, strings by code units, booleans as
\* 0 and 1, undefined never smaller.
PropLess(a, b, key) ==
  CASE KeyType(key) = "number" -> a[key] < b[key]
    [] KeyType(key) = "string" -> StrLess(a[key], b[key])
    [] KeyType(key) = "boolean" -> ~a[key] /\ b[key]
    [] OTHER -> FALSE

\* The comparator of the filter and sort effect.
compareBySortConfigAscending(a, b, config) ==
  IF PropLess(a, b, config.key) THEN 0 - 1
  ELSE IF PropLess(b, a, config.key) THEN 1
  ELSE 0

compareBySortConfig(a, b, config) ==
  IF PropLess(a, b, config.key) THEN (IF config.direction = "asc" THEN 0 - 1 ELSE 1)
  ELSE IF PropLess(b, a, config.key) THEN (IF config.direction = "asc" THEN 1 ELSE 0 - 1)
  ELSE 0

\* The comparator of generateMockKeywords: b.searchVolume - a.searchVolume.
compareByVolumeDesc(a, b) == b.searchVolume - a.searchVolume

GeneratorOrder == [fn |-> "generateMockKeywords", key |-> "searchVolume", direction |-> "desc"]
ConfigOrder(config) == [fn |-> "sortConfig", key |-> config.key, direction |-> config.direction]

Compare(cmp, a, b) ==
  IF cmp.fn = "generateMockKeywords" THEN compareByVolumeDesc(a, b)
  ELSE compareBySortConfig(a, b, cmp)

\* The stable merge of two sorted runs: on a tie the element of the left
\* run goes first.  The middle element of the left run goes after the
\* elements of the right run that compare before it, and the parts on
\* either side are merged likewise.
RECURSIVE MergeTiesFromRight(_, _, _)
MergeTiesFromRight(left, right, cmp) ==
  IF left = <<>> THEN right
  ELSE IF right = <<>> THEN left
  ELSE LET mid == (Len(left) + 1) \div 2
           before == Cardinality({ j \in 1..Len(right) :
                                     Compare(cmp, left[mid], right[j]) >= 0 })
       IN MergeTiesFromRight(SubSeq(left, 1, mid - 1), SubSeq(right, 1, before), cmp)
          \o << left[mid] >>
          \o MergeTiesFromRight(SubSeq(left, mid + 1, Len(left)),
                                SubSeq(right, before + 1, Len(right)), cmp)

RECURSIVE Merge(_, _, _)
Merge(left, right, cmp) ==
  IF left = <<>> THEN right
  ELSE IF right = <<>> THEN left
  ELSE LET mid == (Len(left) + 1) \div 2
           before == Cardinality({ j \in 1..Len(right) :
                                     Compare(cmp, left[mid], right[j]) > 0 })
       IN Merge(SubSeq(left, 1, mid - 1), SubSeq(right, 1, before), cmp)
          \o << left[mid] >>
          \o Merge(SubSeq(left, mid + 1, Len(left)),
                   SubSeq(right, before + 1, Len(right)), cmp)

RECURSIVE MergeSort(_, _)
MergeSort(arr, cmp) ==
  IF Len(arr) <= 1 THEN arr
  ELSE LET half == Len(arr) \div 2
       IN Merge(MergeSort(SubSeq(arr, 1, half), cmp),
                MergeSort(SubSeq(arr, half + 1, Len(arr)), cmp), cmp)

\* Array.prototype.sort: stable, so an array already in order is returned
\* as it is.
ArraySort(arr, cmp) ==
  IF \A i \in 1..(Len(arr) - 1) : Compare(cmp, arr[i], arr[i + 1]) <= 0 THEN arr
  ELSE MergeSort(arr, cmp)

(***************************************************************************)
(* The dataset generator.  A draw is the outcome of the Math.random calls  *)
(* of one loop iteration; draws[i] is the draw of iteration i.             *)
(***************************************************************************)
generateMockKeywords(categoryId, draws) ==
  LET categoryName == findCategoryName(categoryId, mockCategories)
      keywords ==
        [i \in 1..Len(draws) |->
          [id |-> categoryId \o StrKwInfix \o IntToStr(i),
           name |-> categoryName \o <<32>>
                    \o (IF draws[i].isBrand THEN StrBrandWord ELSE EmptyStr)
                    \o StrKeywordWord \o IntToStr(i),
           searchVolume |-> draws[i].searchVolume,
           productCount |-> draws[i].productCount,
           competitionLevel |-> draws[i].competitionLevel,
           isBrand |-> draws[i].isBrand,
           searchType |-> draws[i].searchType]]
  IN ArraySort(keywords, GeneratorOrder)

\* The draws of Spec: MaxBatch iterations, spread over the ranges of the
\* generator (volume 1000..50999, product count 100..10099) by a fixed
\* recurrence per seed.
SeedDraws(seed) ==
  [i \in 1..MaxBatch |->
    [isBrand |-> ((i + seed) % 3 = 0),
     searchType |-> IF (i + seed) % 2 = 0 THEN TypeShopping ELSE TypeInformational,
     searchVolume |-> 1000 + ((i * 7919 + seed * 10477) % 50000),
     productCount |-> 100 + ((i * 613 + seed * 17) % 10000),
     competitionLevel |-> CASE (i + seed) % 4 = 0 -> CompLow
                            [] (i + seed) % 4 = 1 -> CompMedium
                            [] OTHER -> CompHigh]]

\* The draws of SpecFilter: every batch of 1..MaxLen iterations over a pool
\* of outcomes that differ in each filtered field and tie in search volume.
DrawPool ==
  { [isBrand |-> TRUE, searchType |-> TypeShopping, searchVolume |-> 30000,
     productCount |-> 500, competitionLevel |-> CompLow],
    [isBrand |-> FALSE, searchType |-> TypeInformational, searchVolume |-> 15000,
     productCount |-> 200, competitionLevel |-> CompMedium],
    [isBrand |-> FALSE, searchType |-> TypeShopping, searchVolume |-> 15000,
     productCount |-> 900, competitionLevel |-> CompHigh],
    [isBrand |-> TRUE, searchType |-> TypeInformational, searchVolume |-> 4000,
     productCount |-> 200, competitionLevel |-> CompLow] }

SmallDraws == UNION { [1..n -> DrawPool] : n \in 1..MaxLen }

(***************************************************************************)
(* The filter and sort effect, as a function of the state it reads.        *)
(***************************************************************************)
filterBySearchTerm(result, term) ==
  IF term # EmptyStr
    THEN SelectSeq(result, LAMBDA keyword :
           StrIncludes(toLowerCase(keyword.name), toLowerCase(term)))
    ELSE result

filterByMinVolume(result, minText) ==
  IF minText # EmptyStr
    THEN SelectSeq(result, LAMBDA keyword : GreaterEq(keyword.searchVolume, parseInt(minText)))
    ELSE result

filterByMaxVolume(result, maxText) ==
  IF maxText # EmptyStr
    THEN SelectSeq(result, LAMBDA keyword : LessEq(keyword.searchVolume, parseInt(maxText)))
    ELSE result

filterBySearchVolume(result, volumeFilter, minText, maxText) ==
  IF volumeFilter # EmptyStr
    THEN IF volumeFilter = StrCustom
           THEN filterByMaxVolume(filterByMinVolume(result, minText), maxText)
           ELSE LET threshold == parseInt(volumeFilter)
                IN SelectSeq(result, LAMBDA keyword : GreaterEq(keyword.searchVolume, threshold))
    ELSE result

filterByBrandFirstChecked(result, brand) ==
  IF ~includes(brand, StrAll)
    THEN IF includes(brand, StrBrand)
           THEN SelectSeq(result, LAMBDA keyword : keyword.isBrand)
         ELSE IF includes(brand, StrNonBrand)
           THEN SelectSeq(result, LAMBDA keyword : ~keyword.isBrand)
         ELSE result
    ELSE result

filterByBrand(result, brand) ==
  IF ~includes(brand, StrAll)
    THEN LET includeBrand == includes(brand, StrBrand)
             includeNonBrand == includes(brand, StrNonBrand)
         IN IF includeBrand /\ ~includeNonBrand
              THEN SelectSeq(result, LAMBDA keyword : keyword.isBrand)
            ELSE IF ~includeBrand /\ includeNonBrand
              THEN SelectSeq(result, LAMBDA keyword : ~keyword.isBrand)
            ELSE result
    ELSE result

filterBySearchType(result, types) ==
  IF ~includes(types, StrAll)
    THEN SelectSeq(result, LAMBDA keyword : includes(types, keyword.searchType))
    ELSE result

filterByCompetition(result, levels) ==
  IF ~includes(levels, StrAll)
    THEN SelectSeq(result, LAMBDA keyword : includes(levels, keyword.competitionLevel))
    ELSE result

\* sortConfig is never null: its initial value and every value handleSort
\* returns is an object, so the guard `if (sortConfig)` always passes.
sortResult(result, config) == ArraySort(result, ConfigOrder(config))

\* The value the effect passes to setFilteredKeywords.
filterAndSort(source, term, volumeFilter, minText, maxText, brand, types, levels, config) ==
  sortResult(
    filterByCompetition(
      filterBySearchType(
        filterByBrand(
          filterBySearchVolume(
            filterBySearchTerm(source, term),
            volumeFilter, minText, maxText),
          brand),
        types),
      levels),
    config)

(***************************************************************************)
(* State.                                                                  *)
(***************************************************************************)
VARIABLES
  selectedCategories,          \* useState: the selected category path
  categoryOptions,             \* useState: one option list per shown level
  keywords,                    \* useState: the stored dataset
  filteredKeywords,            \* useState: the filtered and sorted view
  searchTerm,                  \* useState
  isLoading,                   \* useState
  searchVolumeFilter,          \* useState: "", a preset or "custom"
  minSearchVolume,             \* useState: text of the custom minimum
  maxSearchVolume,             \* useState: text of the custom maximum
  brandFilter,                 \* useState: inclusion array
  searchTypeFilter,            \* useState: inclusion array
  competitionFilter,           \* useState: inclusion array
  genderFilter,                \* useState (placeholder filter)
  ageFilter,                   \* useState (placeholder filter)
  bestSellingMonthFilter,      \* useState (placeholder filter)
  searchVolumeIncreaseFilter,  \* useState (placeholder filter)
  customSearchVolumeIncrease,  \* useState (placeholder filter)
  visibleKeywords,             \* useState: the visible count
  isLoadingMore,               \* useState: the loading-more guard
  sortConfig,                  \* useState: [key, direction]
  columns,                     \* useState: the column ids, in table order
  columnWidths,                \* useState: the widths the user has set, by column id
  timers,                      \* pending setTimeout callbacks, in the order set
  scrollListener,              \* the handleScroll closure on the mounted container
  pendingEffects               \* passive effects scheduled by the last commit

categoryVars == <<selectedCategories, categoryOptions>>
dataVars == <<keywords, filteredKeywords, isLoading>>
criteriaVars == <<searchTerm, searchVolumeFilter, minSearchVolume, maxSearchVolume,
                  brandFilter, searchTypeFilter, competitionFilter>>
placeholderVars == <<genderFilter, ageFilter, bestSellingMonthFilter,
                     searchVolumeIncreaseFilter, customSearchVolumeIncrease>>
pageVars == <<visibleKeywords, isLoadingMore>>
tableVars == <<columns, columnWidths>>

vars == <<categoryVars, dataVars, criteriaVars, placeholderVars, pageVars, tableVars,
          sortConfig, timers, scrollListener, pendingEffects>>

\* Delays of the two setTimeout call sites, in milliseconds.
LoadDelay == 800
LoadMoreDelay == 300

LoadTimer(categoryId) == [kind |-> "load", categoryId |-> categoryId, length |-> 0]
LoadMoreTimer(length) == [kind |-> "more", categoryId |-> EmptyStr, length |-> length]
Delay(timer) == IF timer.kind = "load" THEN LoadDelay ELSE LoadMoreDelay

\* The index of the timer that fires among those that are due.  Timers run
\* in the order they were set, except that one set later may run first when
\* its delay is shorter.
LastDue(due) == CHOOSE i \in due : \A j \in due : i >= j
FirstDue(due) == CHOOSE i \in due : \A j \in due : i <= j

\* Timer i can be the next to fire: none set before it has a delay that is
\* not longer.
CanFire(i) ==
  LET due == {j \in 1..Len(timers) : Delay(timers[j]) <= Delay(timers[i])}
  IN i = FirstDue(due)

RemoveAt(seq, i) == SubSeq(seq, 1, i - 1) \o SubSeq(seq, i + 1, Len(seq))

CountKind(kind) == Cardinality({i \in 1..Len(timers) : timers[i].kind = kind})

NoListener == [attached |-> FALSE, isLoadingMore |-> FALSE, visibleKeywords |-> 0, length |-> 0]

\* The closure the infinite scroll effect registers: handleScroll reads
\* isLoadingMore, visibleKeywords and filteredKeywords.length of the render
\* that ran the effect.  tableContainerRef.current is null while the
\* loading spinner is rendered in place of the table container.
RegisteredListener ==
  IF isLoading THEN NoListener
  ELSE [attached |-> TRUE, isLoadingMore |-> isLoadingMore,
        visibleKeywords |-> visibleKeywords, length |-> Len(filteredKeywords)]

NoEffects == [filter |-> FALSE, scroll |-> FALSE]

\* The dependency array of the infinite scroll effect.
ScrollDeps == <<Len(filteredKeywords), isLoadingMore, visibleKeywords>>

\* A commit of the state an event handler or timer callback has set
\* (its updates are batched into one render): the effects whose dependencies
\* changed are scheduled, and the container element, with the listener on
\* it, leaves the document when the spinner replaces the table.
Commit(filterDepsChanged) ==
  /\ pendingEffects' = [filter |-> pendingEffects.filter \/ filterDepsChanged,
                        scroll |-> pendingEffects.scroll \/ (ScrollDeps' # ScrollDeps)]
  /\ scrollListener' = IF isLoading' THEN NoListener ELSE scrollListener

\* An indicator that leaves the brand criterion out.
hasActiveFiltersWithoutBrand ==
  \/ searchTerm # EmptyStr
  \/ searchVolumeFilter # EmptyStr
  \/ ~includes(searchTypeFilter, StrAll)
  \/ ~includes(competitionFilter, StrAll)
  \/ genderFilter # StrAll
  \/ Len(ageFilter) > 0
  \/ bestSellingMonthFilter # EmptyStr
  \/ searchVolumeIncreaseFilter # EmptyStr
hasActiveFilters ==
  \/ searchTerm # EmptyStr
  \/ searchVolumeFilter # EmptyStr
  \/ ~includes(brandFilter, StrAll)
  \/ ~includes(searchTypeFilter, StrAll)
  \/ ~includes(competitionFilter, StrAll)
  \/ genderFilter # StrAll
  \/ Len(ageFilter) > 0
  \/ bestSellingMonthFilter # EmptyStr
  \/ searchVolumeIncreaseFilter # EmptyStr

(***************************************************************************)
(* Initial states.                                                         *)
(***************************************************************************)
DefaultCriteria ==
  /\ searchTerm = EmptyStr
  /\ searchVolumeFilter = EmptyStr
  /\ minSearchVolume = EmptyStr
  /\ maxSearchVolume = EmptyStr
  /\ brandFilter = <<StrAll>>
  /\ searchTypeFilter = <<StrAll>>
  /\ competitionFilter = <<StrAll>>
  /\ genderFilter = StrAll
  /\ ageFilter = <<>>
  /\ bestSellingMonthFilter = EmptyStr
  /\ searchVolumeIncreaseFilter = EmptyStr
  /\ customSearchVolumeIncrease = EmptyStr

DefaultSortConfig == [key |-> "searchVolume", direction |-> "desc"]

\* The useState initialisers of columns (ids in declaration order) and of
\* columnWidths ({}).
initialColumns ==
  << "rank", "name", "searchVolume", "productCount", "competitionLevel", "avgPrice",
     "trend", "gender", "ageDistribution", "isBrand", "searchType" >>
initialColumnWidths == [columnId \in {} |-> 0]
DefaultTable == columns = initialColumns /\ columnWidths = initialColumnWidths

\* The component after it has mounted: the state of the useState
\* initialisers, the initial data loading effect has set its timer for the
\* default category, the filter and sort effect has run on the empty
\* dataset, and the scroll effect found no container to listen on.
Init ==
  /\ selectedCategories = << [id |-> <<49>>, name |-> <<54056, 49496, 51032, 47448>>, level |-> 1] >>
  /\ categoryOptions = << [level |-> 1, categories |-> CategoryIds(mockCategories)] >>
  /\ keywords = <<>>
  /\ filteredKeywords = <<>>
  /\ isLoading = TRUE
  /\ DefaultCriteria
  /\ visibleKeywords = InitialPageSize
  /\ isLoadingMore = FALSE
  /\ sortConfig = DefaultSortConfig
  /\ DefaultTable
  /\ timers = << LoadTimer(selectedCategories[1].id) >>
  /\ scrollListener = NoListener
  /\ pendingEffects = NoEffects

\* The component after its first load has completed with a batch of
\* `draws` and its effects have run: the view is the batch, the scroll
\* effect has registered its listener on the mounted container.
LoadedWith(draws) ==
  /\ selectedCategories = << [id |-> <<49>>, name |-> <<54056, 49496, 51032, 47448>>, level |-> 1] >>
  /\ categoryOptions = << [level |-> 1, categories |-> CategoryIds(mockCategories)] >>
  /\ keywords = generateMockKeywords(<<49>>, draws)
  /\ filteredKeywords = keywords
  /\ isLoading = FALSE
  /\ DefaultCriteria
  /\ visibleKeywords = InitialPageSize
  /\ isLoadingMore = FALSE
  /\ sortConfig = DefaultSortConfig
  /\ DefaultTable
  /\ timers = <<>>
  /\ scrollListener = [attached |-> TRUE, isLoadingMore |-> FALSE,
                       visibleKeywords |-> InitialPageSize, length |-> Len(keywords)]
  /\ pendingEffects = NoEffects

InitFilter == \E draws \in SmallDraws : LoadedWith(draws)

(***************************************************************************)
(* Event handlers.  Every handler runs on a settled page, that is after    *)
(* the passive effects of the previous commit; only a scroll event can     *)
(* reach the listener between a commit and its effects.                    *)
(***************************************************************************)
Settled == pendingEffects = NoEffects

\* The toggle the three inclusion-array handlers share.
toggleInclusionKeepingAll(filter, value) ==
  IF value = StrAll THEN <<StrAll>>
  ELSE IF includes(filter, value) THEN without(filter, value) ELSE Append(filter, value)
toggleInclusion(filter, value) ==
  IF value = StrAll THEN <<StrAll>>
  ELSE LET newFilter == IF includes(filter, value)
                          THEN without(filter, value)
                          ELSE Append(without(filter, StrAll), value)
       IN IF Len(newFilter) > 0 THEN newFilter ELSE <<StrAll>>

handleBrandFilterChange(value) ==
  /\ Settled
  /\ brandFilter' = toggleInclusion(brandFilter, value)
  /\ UNCHANGED <<tableVars, categoryVars, dataVars, placeholderVars, pageVars, sortConfig, timers,
                 searchTerm, searchVolumeFilter, minSearchVolume, maxSearchVolume,
                 searchTypeFilter, competitionFilter>>
  /\ Commit(TRUE)

handleSearchTypeFilterChange(value) ==
  /\ Settled
  /\ searchTypeFilter' = toggleInclusion(searchTypeFilter, value)
  /\ UNCHANGED <<tableVars, categoryVars, dataVars, placeholderVars, pageVars, sortConfig, timers,
                 searchTerm, searchVolumeFilter, minSearchVolume, maxSearchVolume,
                 brandFilter, competitionFilter>>
  /\ Commit(TRUE)

handleCompetitionFilterChange(value) ==
  /\ Settled
  /\ competitionFilter' = toggleInclusion(competitionFilter, value)
  /\ UNCHANGED <<tableVars, categoryVars, dataVars, placeholderVars, pageVars, sortConfig, timers,
                 searchTerm, searchVolumeFilter, minSearchVolume, maxSearchVolume,
                 brandFilter, searchTypeFilter>>
  /\ Commit(TRUE)

\* onChange of the keyword search input.
setSearchTerm(value) ==
  /\ Settled
  /\ value # searchTerm
  /\ searchTerm' = value
  /\ UNCHANGED <<tableVars, categoryVars, dataVars, placeholderVars, pageVars, sortConfig, timers,
                 searchVolumeFilter, minSearchVolume, maxSearchVolume,
                 brandFilter, searchTypeFilter, competitionFilter>>
  /\ Commit(TRUE)

\* onClick of a search volume button (a preset or "custom").
setSearchVolumeFilter(value) ==
  /\ Settled
  /\ value # searchVolumeFilter
  /\ searchVolumeFilter' = value
  /\ UNCHANGED <<tableVars, categoryVars, dataVars, placeholderVars, pageVars, sortConfig, timers,
                 searchTerm, minSearchVolume, maxSearchVolume,
                 brandFilter, searchTypeFilter, competitionFilter>>
  /\ Commit(TRUE)

\* onChange of the custom minimum input, rendered in custom mode only.
setMinSearchVolume(value) ==
  /\ Settled
  /\ searchVolumeFilter = StrCustom
  /\ value # minSearchVolume
  /\ minSearchVolume' = value
  /\ UNCHANGED <<tableVars, categoryVars, dataVars, placeholderVars, pageVars, sortConfig, timers,
                 searchTerm, searchVolumeFilter, maxSearchVolume,
                 brandFilter, searchTypeFilter, competitionFilter>>
  /\ Commit(TRUE)

\* onChange of the custom maximum input, rendered in custom mode only.
setMaxSearchVolume(value) ==
  /\ Settled
  /\ searchVolumeFilter = StrCustom
  /\ value # maxSearchVolume
  /\ maxSearchVolume' = value
  /\ UNCHANGED <<tableVars, categoryVars, dataVars, placeholderVars, pageVars, sortConfig, timers,
                 searchTerm, searchVolumeFilter, minSearchVolume,
                 brandFilter, searchTypeFilter, competitionFilter>>
  /\ Commit(TRUE)

\* The sort specification after a click on the sort button of a column.
nextSortConfigDescending(prevConfig, columnId) == [key |-> columnId, direction |-> "desc"]

nextSortConfig(prevConfig, columnId) ==
  IF prevConfig.key = columnId
    THEN [key |-> columnId,
          direction |-> IF prevConfig.direction = "asc" THEN "desc" ELSE "asc"]
    ELSE [key |-> columnId, direction |-> "desc"]

\* The table header is rendered with the table, not with the spinner.
handleSort(columnId) ==
  /\ Settled
  /\ ~isLoading
  /\ sortConfig' = nextSortConfig(sortConfig, columnId)
  /\ UNCHANGED <<tableVars, categoryVars, dataVars, criteriaVars, placeholderVars, pageVars, timers>>
  /\ Commit(TRUE)

\* A reset that puts the sort specification back as well.
resetFiltersAndSort ==
  /\ Settled
  /\ hasActiveFilters
  /\ searchTerm' = EmptyStr
  /\ searchVolumeFilter' = EmptyStr
  /\ minSearchVolume' = EmptyStr
  /\ maxSearchVolume' = EmptyStr
  /\ brandFilter' = <<StrAll>>
  /\ searchTypeFilter' = <<StrAll>>
  /\ competitionFilter' = <<StrAll>>
  /\ genderFilter' = StrAll
  /\ ageFilter' = <<>>
  /\ bestSellingMonthFilter' = EmptyStr
  /\ searchVolumeIncreaseFilter' = EmptyStr
  /\ customSearchVolumeIncrease' = EmptyStr
  /\ sortConfig' = DefaultSortConfig
  /\ UNCHANGED <<tableVars, categoryVars, dataVars, pageVars, timers>>
  /\ Commit(TRUE)
\* Both reset buttons are available only while hasActiveFilters.
resetFilters ==
  /\ Settled
  /\ hasActiveFilters
  /\ searchTerm' = EmptyStr
  /\ searchVolumeFilter' = EmptyStr
  /\ minSearchVolume' = EmptyStr
  /\ maxSearchVolume' = EmptyStr
  /\ brandFilter' = <<StrAll>>
  /\ searchTypeFilter' = <<StrAll>>
  /\ competitionFilter' = <<StrAll>>
  /\ genderFilter' = StrAll
  /\ ageFilter' = <<>>
  /\ bestSellingMonthFilter' = EmptyStr
  /\ searchVolumeIncreaseFilter' = EmptyStr
  /\ customSearchVolumeIncrease' = EmptyStr
  /\ UNCHANGED <<tableVars, categoryVars, dataVars, pageVars, sortConfig, timers>>
  /\ Commit(TRUE)

\* onClick of a gender button.
setGenderFilter(value) ==
  /\ Settled
  /\ value # genderFilter
  /\ genderFilter' = value
  /\ UNCHANGED <<tableVars, categoryVars, dataVars, criteriaVars, pageVars, sortConfig, timers,
                 ageFilter, bestSellingMonthFilter, searchVolumeIncreaseFilter,
                 customSearchVolumeIncrease>>
  /\ Commit(TRUE)

\* onClick of an age range button: the range is toggled.
handleAgeFilterChange(value) ==
  /\ Settled
  /\ ageFilter' = IF includes(ageFilter, value) THEN without(ageFilter, value)
                  ELSE Append(ageFilter, value)
  /\ UNCHANGED <<tableVars, categoryVars, dataVars, criteriaVars, pageVars, sortConfig, timers,
                 genderFilter, bestSellingMonthFilter, searchVolumeIncreaseFilter,
                 customSearchVolumeIncrease>>
  /\ Commit(TRUE)

\* onClick of a month button: the month is set, or cleared when it is the
\* one set.
setBestSellingMonthFilter(month) ==
  /\ Settled
  /\ bestSellingMonthFilter' = IF bestSellingMonthFilter = month THEN EmptyStr ELSE month
  /\ UNCHANGED <<tableVars, categoryVars, dataVars, criteriaVars, pageVars, sortConfig, timers,
                 genderFilter, ageFilter, searchVolumeIncreaseFilter,
                 customSearchVolumeIncrease>>
  /\ Commit(TRUE)

\* onClick of a search volume increase button.
setSearchVolumeIncreaseFilter(value) ==
  /\ Settled
  /\ value # searchVolumeIncreaseFilter
  /\ searchVolumeIncreaseFilter' = value
  /\ UNCHANGED <<tableVars, categoryVars, dataVars, criteriaVars, pageVars, sortConfig, timers,
                 genderFilter, ageFilter, bestSellingMonthFilter,
                 customSearchVolumeIncrease>>
  /\ Commit(TRUE)

\* onChange of the custom increase input, rendered in custom mode only.
setCustomSearchVolumeIncrease(value) ==
  /\ Settled
  /\ searchVolumeIncreaseFilter = StrCustom
  /\ value # customSearchVolumeIncrease
  /\ customSearchVolumeIncrease' = value
  /\ UNCHANGED <<tableVars, categoryVars, dataVars, criteriaVars, pageVars, sortConfig, timers,
                 genderFilter, ageFilter, bestSellingMonthFilter,
                 searchVolumeIncreaseFilter>>
  /\ Commit(TRUE)

\* Array.prototype.findIndex by column id, from 1; 0 when no column has it.
findIndex(items, id) ==
  IF \E i \in 1..Len(items) : items[i] = id
    THEN CHOOSE i \in 1..Len(items) : items[i] = id /\ \A j \in 1..(i - 1) : items[j] # id
    ELSE 0

\* onDragEnd of the header row: the dragged column is taken out and put in
\* at the index of the column it was dropped on.  The header row is
\* rendered with the table.
handleDragEnd(activeId, overId) ==
  /\ Settled
  /\ ~isLoading
  /\ activeId # overId
  /\ LET oldIndex == findIndex(columns, activeId)
         newIndex == findIndex(columns, overId)
         newItems == RemoveAt(columns, oldIndex)
     IN columns' = SubSeq(newItems, 1, newIndex - 1) \o << columns[oldIndex] >>
                     \o SubSeq(newItems, newIndex, Len(newItems))
  /\ UNCHANGED <<columnWidths, categoryVars, dataVars, criteriaVars, placeholderVars, pageVars,
                 sortConfig, timers>>
  /\ Commit(FALSE)

\* onResize of a header cell: the width of the column is recorded.
handleColumnResize(columnId, width) ==
  /\ Settled
  /\ ~isLoading
  /\ columnWidths' = [id \in DOMAIN columnWidths \cup {columnId} |->
                        IF id = columnId THEN width ELSE columnWidths[id]]
  /\ UNCHANGED <<columns, categoryVars, dataVars, criteriaVars, placeholderVars, pageVars,
                 sortConfig, timers>>
  /\ Commit(FALSE)

\* onValueChange of the select of option list `index`, with the identifier
\* of the item chosen.
selectCategory(index, value) ==
  /\ Settled
  /\ index \in 1..Len(categoryOptions)
  /\ CountKind("load") < MaxLoads
  /\ LET option == categoryOptions[index]
     IN /\ includes(option.categories, value)
        /\ LET selectedCategory == CategoryById(value)
               newSelectedCategories ==
                 Append(SelectSeq(selectedCategories, LAMBDA c : c.level < option.level),
                        [id |-> selectedCategory.id, name |-> selectedCategory.name,
                         level |-> option.level])
               hasChildren == /\ "children" \in DOMAIN selectedCategory
                              /\ Len(selectedCategory.children) > 0
               kept == SelectSeq(categoryOptions, LAMBDA o : o.level <= option.level)
           IN /\ selectedCategories' = newSelectedCategories
              /\ categoryOptions' =
                   IF hasChildren
                     THEN Append(kept, [level |-> option.level + 1,
                                        categories |-> CategoryIds(selectedCategory.children)])
                     ELSE kept
              /\ isLoading' = TRUE
              /\ timers' = Append(timers, LoadTimer(selectedCategory.id))
  /\ UNCHANGED <<tableVars, keywords, filteredKeywords, criteriaVars, placeholderVars, pageVars, sortConfig>>
  /\ Commit(FALSE)

\* The callback of a load timer: newKeywords, the batch generated for the
\* category the timer was set for, becomes the dataset and the view, and
\* the spinner is taken down.
loadCompleted(i, draws) ==
  /\ Settled
  /\ i \in 1..Len(timers)
  /\ timers[i].kind = "load"
  /\ CanFire(i)
  /\ keywords' = generateMockKeywords(timers[i].categoryId, draws)
  /\ filteredKeywords' = keywords'
  /\ isLoading' = FALSE
  /\ timers' = RemoveAt(timers, i)
  /\ UNCHANGED <<tableVars, categoryVars, criteriaVars, placeholderVars, pageVars, sortConfig>>
  /\ Commit(TRUE)

\* A scroll event within 200px of the bottom, delivered to the registered
\* listener: the closure tests the values it captured.
handleScroll ==
  /\ scrollListener.attached
  /\ ~scrollListener.isLoadingMore
  /\ scrollListener.visibleKeywords < scrollListener.length
  /\ CountKind("more") < MaxMoreTimers
  /\ isLoadingMore' = TRUE
  /\ timers' = Append(timers, LoadMoreTimer(scrollListener.length))
  /\ UNCHANGED <<tableVars, categoryVars, dataVars, criteriaVars, placeholderVars, sortConfig,
                 visibleKeywords>>
  /\ Commit(FALSE)

Min(a, b) == IF a < b THEN a ELSE b

\* A callback that raises the count and leaves the guard up.
loadMoreCompletedKeepingGuard(i) ==
  /\ Settled
  /\ i \in 1..Len(timers)
  /\ timers[i].kind = "more"
  /\ CanFire(i)
  /\ visibleKeywords' = Min(visibleKeywords + LoadIncrement, timers[i].length)
  /\ isLoadingMore' = isLoadingMore
  /\ timers' = RemoveAt(timers, i)
  /\ UNCHANGED <<tableVars, categoryVars, dataVars, criteriaVars, placeholderVars, sortConfig>>
  /\ Commit(FALSE)
\* The callback of a loadMore timer: the length is the one its closure
\* captured, the previous count is the current one (functional update).
loadMoreCompleted(i) ==
  /\ Settled
  /\ i \in 1..Len(timers)
  /\ timers[i].kind = "more"
  /\ CanFire(i)
  /\ visibleKeywords' = Min(visibleKeywords + LoadIncrement, timers[i].length)
  /\ isLoadingMore' = FALSE
  /\ timers' = RemoveAt(timers, i)
  /\ UNCHANGED <<tableVars, categoryVars, dataVars, criteriaVars, placeholderVars, sortConfig>>
  /\ Commit(FALSE)

\* The array the filter and sort effect starts from: a copy of keywords.
effectSourcePreviousView == filteredKeywords
effectSource == keywords

\* The stored array after the effect has filtered and sorted: `result` is
\* a copy ([...keywords]) and filter returns new arrays, so result.sort
\* reorders the copy and the stored array is as it was.
storedAfterSortInPlace(stored, config) == sortResult(stored, config)
storedAfterEffect(stored, config) == stored

\* The passive effects of the last commit, in the order the component
\* declares them: the filter and sort effect sets the view, the infinite
\* scroll effect registers a new closure.  setFilteredKeywords causes one
\* more render, which schedules the scroll effect again when the length of
\* the view has changed.
runEffects ==
  /\ ~Settled
  /\ filteredKeywords' =
       IF pendingEffects.filter
         THEN filterAndSort(effectSource, searchTerm, searchVolumeFilter, minSearchVolume,
                            maxSearchVolume, brandFilter, searchTypeFilter,
                            competitionFilter, sortConfig)
         ELSE filteredKeywords
  /\ keywords' =
       IF pendingEffects.filter THEN storedAfterEffect(keywords, sortConfig) ELSE keywords
  /\ scrollListener' = IF pendingEffects.scroll THEN RegisteredListener ELSE scrollListener
  /\ pendingEffects' = [filter |-> FALSE,
                        scroll |-> Len(filteredKeywords') # Len(filteredKeywords)]
  /\ UNCHANGED <<tableVars, categoryVars, isLoading, criteriaVars, placeholderVars, pageVars,
                 sortConfig, timers>>

\* Array.prototype.slice(start, end): negative indices count from the
\* end, both are clamped to the length, the result holds the elements at
\* start .. end - 1.
sliceThroughEnd(arr, start, end) ==
  LET len == Len(arr)
      k == IF start < 0 THEN (IF len + start > 0 THEN len + start ELSE 0) ELSE Min(start, len)
      final == IF end < 0 THEN (IF len + end > 0 THEN len + end ELSE 0) ELSE Min(end + 1, len)
  IN [i \in 1..(IF final > k THEN final - k ELSE 0) |-> arr[k + i]]

slice(arr, start, end) ==
  LET len == Len(arr)
      k == IF start < 0 THEN (IF len + start > 0 THEN len + start ELSE 0) ELSE Min(start, len)
      final == IF end < 0 THEN (IF len + end > 0 THEN len + end ELSE 0) ELSE Min(end, len)
  IN [i \in 1..(IF final > k THEN final - k ELSE 0) |-> arr[k + i]]

\* The records the table body maps to rows.
visibleSlice == slice(filteredKeywords, 0, visibleKeywords)

(***************************************************************************)
(* Spec: the page with its loads, its pagination and the brand filter, on  *)
(* batches of MaxBatch records.                                            *)
(***************************************************************************)
CategoryInputs == { <<49>>, <<50>>, <<49, 45, 49>> }
BrandInputs == { StrAll, StrBrand }

Next ==
  \/ \E index \in 1..2, value \in CategoryInputs : selectCategory(index, value)
  \/ \E i \in 1..Len(timers), seed \in 1..MaxSeeds : loadCompleted(i, SeedDraws(seed))
  \/ handleScroll
  \/ \E i \in 1..Len(timers) : loadMoreCompleted(i)
  \/ \E value \in BrandInputs : handleBrandFilterChange(value)
  \/ runEffects

Spec == Init /\ [][Next]_vars

(***************************************************************************)
(* SpecFilter: the filter and sort pipeline on loaded batches of at most   *)
(* MaxLen records, under every control of the filter card.                 *)
(***************************************************************************)
TermInputs == { EmptyStr, <<49, 32>> }                      \* "", "1 "
VolumeFilterInputs == { Preset20000, StrCustom }
MinInputs == { EmptyStr, Preset10000, <<46, 53>>, <<49, 101, 52>> }  \* "", "10000", ".5", "1e4"
MaxInputs == { EmptyStr, Preset20000 }
SearchTypeInputs == { StrAll, TypeShopping }
CompetitionInputs == { StrAll, CompLow, CompMedium }
SortKeyInputs == { "productCount" }

NextFilter ==
  \/ \E value \in TermInputs : setSearchTerm(value)
  \/ \E value \in VolumeFilterInputs : setSearchVolumeFilter(value)
  \/ \E value \in MinInputs : setMinSearchVolume(value)
  \/ \E value \in MaxInputs : setMaxSearchVolume(value)
  \/ \E value \in BrandInputs : handleBrandFilterChange(value)
  \/ \E value \in SearchTypeInputs : handleSearchTypeFilterChange(value)
  \/ \E value \in CompetitionInputs : handleCompetitionFilterChange(value)
  \/ \E columnId \in SortKeyInputs : handleSort(columnId)
  \/ resetFilters
  \/ runEffects

SpecFilter == InitFilter /\ [][NextFilter]_vars


(***************************************************************************)
(* SpecToggle: the three inclusion arrays under every value of their       *)
(* checkboxes.                                                             *)
(***************************************************************************)
BrandValues == { StrAll, StrBrand, StrNonBrand }
SearchTypeValues == { StrAll, TypeShopping, TypeInformational }
CompetitionValues == { StrAll, CompLow, CompMedium, CompHigh }

NextToggle ==
  \/ \E value \in BrandValues : handleBrandFilterChange(value)
  \/ \E value \in SearchTypeValues : handleSearchTypeFilterChange(value)
  \/ \E value \in CompetitionValues : handleCompetitionFilterChange(value)
  \/ resetFilters
  \/ runEffects

SpecToggle == InitFilter /\ [][NextToggle]_vars

(***************************************************************************)
(* SpecReload: category loads and the sort button, on batches of at most   *)
(* MaxLen records.                                                         *)
(***************************************************************************)
ReloadSortInputs == { "searchVolume", "productCount" }

NextReload ==
  \/ \E index \in 1..2, value \in CategoryInputs : selectCategory(index, value)
  \/ \E i \in 1..Len(timers), draws \in SmallDraws : loadCompleted(i, draws)
  \/ \E columnId \in ReloadSortInputs : handleSort(columnId)
  \/ runEffects

SpecReload == Init /\ [][NextReload]_vars

(***************************************************************************)
(* SpecSort: the sort button of every sortable column, with the brand      *)
(* filter, on loaded batches of MaxSortLen records.                        *)
(***************************************************************************)
SortColumnInputs ==
  { "name", "searchVolume", "productCount", "competitionLevel", "avgPrice", "gender",
    "isBrand", "searchType" }

SortDraws == [1..MaxSortLen -> DrawPool]

InitSort == \E draws \in SortDraws : LoadedWith(draws)

NextSort ==
  \/ \E columnId \in SortColumnInputs : handleSort(columnId)
  \/ \E value \in BrandInputs : handleBrandFilterChange(value)
  \/ runEffects

SpecSort == InitSort /\ [][NextSort]_vars

(***************************************************************************)
(* Vocabulary of the properties.                                           *)
(***************************************************************************)
\* The category a batch was generated for, read off the identifier of its
\* first record (`${categoryId}-kw-${i}`).
IsBatchOf(batch, categoryId) ==
  /\ batch # <<>>
  /\ \A i \in 1..Len(batch) :
       /\ Len(batch[i].id) > Len(categoryId) + Len(StrKwInfix)
       /\ SubSeq(batch[i].id, 1, Len(categoryId) + Len(StrKwInfix)) = categoryId \o StrKwInfix

LastSelected == selectedCategories[Len(selectedCategories)]

LoadsInFlight == { i \in 1..Len(timers) : timers[i].kind = "load" }

\* String.prototype.trim.
RECURSIVE TrimEnd(_)
TrimEnd(s) ==
  IF s # <<>> /\ IsWhiteSpace(s[Len(s)]) THEN TrimEnd(SubSeq(s, 1, Len(s) - 1)) ELSE s
Trim(s) == TrimEnd(TrimStart(s))

\* A bound of the custom range is set when its text is a number.
BoundSet(text) == text # EmptyStr /\ ~parseInt(text).nan

\* The predicates of the filter criteria, per record.
MatchesText(keyword, term) ==
  Trim(term) = EmptyStr \/ StrIncludes(toLowerCase(keyword.name), toLowerCase(Trim(term)))

MatchesVolume(keyword, volumeFilter, minText, maxText) ==
  IF volumeFilter = EmptyStr THEN TRUE
  ELSE IF volumeFilter = StrCustom
    THEN /\ (BoundSet(minText) => keyword.searchVolume >= parseInt(minText).val)
         /\ (BoundSet(maxText) => keyword.searchVolume <= parseInt(maxText).val)
  ELSE keyword.searchVolume >= parseInt(volumeFilter).val

MatchesBrand(keyword, brand) ==
  LET chosen == { brand[i] : i \in 1..Len(brand) }
  IN IF chosen = {StrAll} \/ {StrBrand, StrNonBrand} \subseteq chosen THEN TRUE
     ELSE IF StrBrand \in chosen THEN keyword.isBrand
     ELSE IF StrNonBrand \in chosen THEN ~keyword.isBrand
     ELSE TRUE

MatchesMembership(value, chosen) ==
  { chosen[i] : i \in 1..Len(chosen) } = {StrAll} \/ \E i \in 1..Len(chosen) : chosen[i] = value

MatchesCriteria(keyword) ==
  /\ MatchesText(keyword, searchTerm)
  /\ MatchesVolume(keyword, searchVolumeFilter, minSearchVolume, maxSearchVolume)
  /\ MatchesBrand(keyword, brandFilter)
  /\ MatchesMembership(keyword.searchType, searchTypeFilter)
  /\ MatchesMembership(keyword.competitionLevel, competitionFilter)

Occurrences(seq, x) == Cardinality({ i \in 1..Len(seq) : seq[i] = x })

\* The view is in the order of the active sort specification.
OrderedBySortConfig(view) ==
  \A i \in 1..Len(view) : \A j \in (i + 1)..Len(view) :
    compareBySortConfig(view[i], view[j], sortConfig) <= 0

WellFormedInclusion(filter) ==
  /\ Len(filter) > 0
  /\ filter = <<StrAll>> \/ ~includes(filter, StrAll)

\* What one toggle of `value` must do to an inclusion array.
ToggleRule(before, after, value) ==
  IF value = StrAll THEN after = <<StrAll>>
  ELSE IF before = <<value>> THEN after = <<StrAll>>
  ELSE /\ ~includes(after, StrAll)
       /\ includes(after, value) <=> ~includes(before, value)

\* The view the effect computes from the dataset with the text criterion
\* left out, and with the volume criterion left out.
ViewWithoutText ==
  filterAndSort(keywords, EmptyStr, searchVolumeFilter, minSearchVolume, maxSearchVolume,
                brandFilter, searchTypeFilter, competitionFilter, sortConfig)

ViewWithoutVolume ==
  filterAndSort(keywords, searchTerm, EmptyStr, EmptyStr, EmptyStr,
                brandFilter, searchTypeFilter, competitionFilter, sortConfig)

ViewWithoutBrand ==
  filterAndSort(keywords, searchTerm, searchVolumeFilter, minSearchVolume, maxSearchVolume,
                <<StrAll>>, searchTypeFilter, competitionFilter, sortConfig)

\* The records the filters keep, in dataset order, before the sort.
FilteredDataset ==
  filterByCompetition(
    filterBySearchType(
      filterByBrand(
        filterBySearchVolume(filterBySearchTerm(keywords, searchTerm),
                             searchVolumeFilter, minSearchVolume, maxSearchVolume),
        brandFilter),
      searchTypeFilter),
    competitionFilter)

Flip(direction) == IF direction = "asc" THEN "desc" ELSE "asc"

\* Non-decreasing (asc) or non-increasing (desc) in the field `key`.
OrderedByKey(view, key, direction) ==
  \A i \in 1..Len(view) : \A j \in (i + 1)..Len(view) :
    IF direction = "asc" THEN ~PropLess(view[j], view[i], key)
    ELSE ~PropLess(view[i], view[j], key)

TiedOnKey(a, b, key) == ~PropLess(a, b, key) /\ ~PropLess(b, a, key)

\* The place of a record in the stored dataset.
PositionInDataset(keyword) == CHOOSE i \in 1..Len(keywords) : keywords[i] = keyword

\* The number a text of a numeric field denotes: optional sign, digits,
\* optional fraction, optional exponent; the value is mant * 10^exp.
RECURSIVE LeadingDigits(_)
LeadingDigits(s) == IF s # <<>> /\ IsDigit(Head(s)) THEN 1 + LeadingDigits(Tail(s)) ELSE 0

RECURSIVE Pow10(_)
Pow10(n) == IF n = 0 THEN 1 ELSE 10 * Pow10(n - 1)

NumberOf(text) ==
  LET neg == text # <<>> /\ Head(text) = 45
      body == IF neg THEN Tail(text) ELSE text
      n1 == LeadingDigits(body)
      afterInt == SubSeq(body, n1 + 1, Len(body))
      hasFrac == afterInt # <<>> /\ Head(afterInt) = 46
      fracText == IF hasFrac THEN Tail(afterInt) ELSE <<>>
      n2 == LeadingDigits(fracText)
      afterFrac == IF hasFrac THEN SubSeq(fracText, n2 + 1, Len(fracText)) ELSE afterInt
      hasExp == afterFrac # <<>> /\ Head(afterFrac) \in {69, 101}
      expText == IF hasExp THEN Tail(afterFrac) ELSE <<>>
      expNeg == expText # <<>> /\ Head(expText) = 45
      expDigits == IF expText # <<>> /\ Head(expText) \in {43, 45} THEN Tail(expText) ELSE expText
      n3 == LeadingDigits(expDigits)
  IN [valid |-> /\ (n1 > 0 \/ hasFrac)
                /\ (hasFrac => n2 > 0)
                /\ (IF hasExp THEN n3 > 0 /\ n3 = Len(expDigits) ELSE afterFrac = <<>>),
      neg |-> neg,
      mant |-> DigitsValue(SubSeq(body, 1, n1) \o SubSeq(fracText, 1, n2), 0),
      exp |-> (IF expNeg THEN 0 - DigitsValue(expDigits, 0) ELSE DigitsValue(expDigits, 0)) - n2]

\* v >= x and v <= x for a volume v (a non-negative integer) and a number x.
AtLeast(v, x) ==
  IF x.neg THEN TRUE
  ELSE IF x.exp >= 0 THEN v >= x.mant * Pow10(x.exp)
  ELSE v * Pow10(0 - x.exp) >= x.mant

AtMost(v, x) ==
  IF x.neg THEN v = 0 /\ x.mant = 0
  ELSE IF x.exp >= 0 THEN v <= x.mant * Pow10(x.exp)
  ELSE v * Pow10(0 - x.exp) <= x.mant

\* The volume criterion: a preset threshold, or the custom range with the
\* bounds that are set.
InVolumeRange(keyword, volumeFilter, minText, maxText) ==
  IF volumeFilter = EmptyStr THEN TRUE
  ELSE IF volumeFilter = StrCustom
    THEN /\ (NumberOf(minText).valid => AtLeast(keyword.searchVolume, NumberOf(minText)))
         /\ (NumberOf(maxText).valid => AtMost(keyword.searchVolume, NumberOf(maxText)))
  ELSE AtLeast(keyword.searchVolume, NumberOf(volumeFilter))

(***************************************************************************)
(* Properties.                                                             *)
(***************************************************************************)
\* C1: every recomputation of the view (a run of the filter and sort
\* effect, after a criteria change, a sort change or a completed load)
\* leaves the visible count at the initial page size.
C1_RecomputeResetsPage ==
  [][(pendingEffects.filter /\ ~pendingEffects'.filter) => visibleKeywords' = InitialPageSize]_vars

\* C2: in every state 0 <= visible count <= length of the view.
C2_VisibleWithinView ==
  0 <= visibleKeywords /\ visibleKeywords <= Len(filteredKeywords)

\* C3: a scroll signal that arrives while a loadMore is pending starts no
\* second one, so no two loadMore timers are ever pending together.
C3_OneLoadMorePending == CountKind("more") <= 1

\* C4: once no load is in flight, the stored dataset is the batch of the
\* category selected last, whatever loads overlapped before.
C4_LastSelectionWins ==
  (LoadsInFlight = {}) => IsBatchOf(keywords, LastSelected.id)

\* C4 witness: the load of an earlier selection has completed while the
\* load of the last selection is still in flight.
C4_Witness ==
  /\ ~isLoading
  /\ Cardinality(LoadsInFlight) = 1
  /\ \A i \in LoadsInFlight : timers[i].categoryId = LastSelected.id
  /\ keywords # <<>>
  /\ ~IsBatchOf(keywords, LastSelected.id)

\* C5: a load that completes while a load started after it is in flight
\* installs nothing: the dataset changes only when no load remains.
C5_SupersededLoadDiscarded ==
  [][(keywords' # keywords) => \A i \in 1..Len(timers') : timers'[i].kind # "load"]_vars

\* C8: the step that replaces the dataset leaves a view whose records all
\* satisfy the active criteria and that is in the active sort order.
C8_AtomicReplacement ==
  [][(keywords' # keywords) =>
       (/\ \A i \in 1..Len(filteredKeywords') : MatchesCriteria(filteredKeywords[i])'
        /\ OrderedBySortConfig(filteredKeywords)')]_vars

\* C6: once the effects have run, each record of the dataset that satisfies
\* all five criteria is in the view exactly once, and no other record is.
C6_FilterSoundAndComplete ==
  Settled =>
    /\ \A i \in 1..Len(keywords) :
         Occurrences(filteredKeywords, keywords[i]) = IF MatchesCriteria(keywords[i]) THEN 1 ELSE 0
    /\ \A i \in 1..Len(filteredKeywords) : Occurrences(keywords, filteredKeywords[i]) = 1

\* C7: once the effects have run, the view is the filter and then the sort
\* of the whole dataset under the criteria and sort specification in force.
C7_ViewFromFullDataset ==
  Settled =>
    filteredKeywords =
      filterAndSort(keywords, searchTerm, searchVolumeFilter, minSearchVolume, maxSearchVolume,
                    brandFilter, searchTypeFilter, competitionFilter, sortConfig)

\* C7 witness: criteria that narrowed the view have been widened again to
\* the defaults under a changed sort, and the view has every record back.
C7_Witness ==
  /\ Settled
  /\ ~hasActiveFilters
  /\ sortConfig = [key |-> "productCount", direction |-> "asc"]
  /\ Len(keywords) = MaxLen
  /\ Len(filteredKeywords) = Len(keywords)
  /\ filteredKeywords # keywords

\* C9: each inclusion array is non-empty and is either exactly <<"all">> or
\* free of "all"; toggling "all" gives <<"all">>, toggling a specific value
\* removes "all", and deselecting the last specific value gives <<"all">>;
\* resetFilters gives <<"all">> in all three.
C9_InclusionArrays ==
  /\ [](/\ WellFormedInclusion(brandFilter)
        /\ WellFormedInclusion(searchTypeFilter)
        /\ WellFormedInclusion(competitionFilter))
  /\ [][/\ \A value \in BrandValues :
            handleBrandFilterChange(value) => ToggleRule(brandFilter, brandFilter', value)
        /\ \A value \in SearchTypeValues :
            handleSearchTypeFilterChange(value) =>
              ToggleRule(searchTypeFilter, searchTypeFilter', value)
        /\ \A value \in CompetitionValues :
            handleCompetitionFilterChange(value) =>
              ToggleRule(competitionFilter, competitionFilter', value)
        /\ resetFilters =>
              /\ brandFilter' = <<StrAll>>
              /\ searchTypeFilter' = <<StrAll>>
              /\ competitionFilter' = <<StrAll>>]_vars

\* C9 witness: "all" has been displaced by specific values in all three
\* arrays, two of them holding more than one value.
C9_Witness ==
  /\ brandFilter = <<StrNonBrand, StrBrand>>
  /\ Len(searchTypeFilter) = 2
  /\ competitionFilter = <<CompHigh>>

\* C10: in custom mode a bound whose text is not a number leaves the view
\* what it would be with that field empty.
C10_MalformedBoundIgnored ==
  (Settled /\ searchVolumeFilter = StrCustom) =>
    /\ (minSearchVolume # EmptyStr /\ parseInt(minSearchVolume).nan) =>
         filteredKeywords =
           filterAndSort(keywords, searchTerm, searchVolumeFilter, EmptyStr, maxSearchVolume,
                         brandFilter, searchTypeFilter, competitionFilter, sortConfig)
    /\ (maxSearchVolume # EmptyStr /\ parseInt(maxSearchVolume).nan) =>
         filteredKeywords =
           filterAndSort(keywords, searchTerm, searchVolumeFilter, minSearchVolume, EmptyStr,
                         brandFilter, searchTypeFilter, competitionFilter, sortConfig)

\* C11: the text criterion keeps exactly the records whose lower-cased name
\* contains the trimmed, lower-cased term; a term that is empty after
\* trimming keeps them all, and white space around the term changes nothing.
C11_TextFilterTrimmed ==
  Settled =>
    filteredKeywords =
      SelectSeq(ViewWithoutText, LAMBDA keyword : MatchesText(keyword, searchTerm))

\* C12: the volume criterion keeps exactly the records at or above the
\* preset threshold, or in custom mode the records at or above min when min
\* is set and at or below max when max is set.
C12_VolumeFilter ==
  Settled =>
    filteredKeywords =
      SelectSeq(ViewWithoutVolume, LAMBDA keyword :
        InVolumeRange(keyword, searchVolumeFilter, minSearchVolume, maxSearchVolume))

\* C13: with exactly one of brand and non-brand chosen the view keeps the
\* records of that kind only, as many as the dataset has when no other
\* criterion is active; with both chosen the view is the one under "all".
C13_BrandFilter ==
  LET chosen == { brandFilter[i] : i \in 1..Len(brandFilter) } \cap {StrBrand, StrNonBrand}
  IN Settled =>
       /\ chosen = {StrBrand} =>
            /\ filteredKeywords = SelectSeq(ViewWithoutBrand, LAMBDA keyword : keyword.isBrand)
            /\ (searchTypeFilter = <<StrAll>> /\ competitionFilter = <<StrAll>>) =>
                 Len(filteredKeywords) =
                   Cardinality({ i \in 1..Len(keywords) : keywords[i].isBrand })
       /\ chosen = {StrNonBrand} =>
            /\ filteredKeywords = SelectSeq(ViewWithoutBrand, LAMBDA keyword : ~keyword.isBrand)
            /\ (searchTypeFilter = <<StrAll>> /\ competitionFilter = <<StrAll>>) =>
                 Len(filteredKeywords) =
                   Cardinality({ i \in 1..Len(keywords) : ~keywords[i].isBrand })
       /\ chosen = {StrBrand, StrNonBrand} => filteredKeywords = ViewWithoutBrand

\* C13 witness: only non-brand is chosen on a dataset that has both kinds,
\* and the view has lost the brand records.
C13_Witness ==
  /\ Settled
  /\ brandFilter = <<StrNonBrand>>
  /\ searchTypeFilter = <<StrAll>>
  /\ competitionFilter = <<StrAll>>
  /\ filteredKeywords # <<>>
  /\ Len(filteredKeywords) < Len(keywords)

\* C14: a click on the active column flips the direction and keeps the key,
\* a click on another column sets that key with direction desc, and a
\* second click on the same column gives back the first direction.
C14_SortToggle ==
  [][\A columnId \in SortColumnInputs :
       handleSort(columnId) =>
         IF sortConfig.key = columnId
           THEN /\ sortConfig' = [key |-> columnId, direction |-> Flip(sortConfig.direction)]
                /\ nextSortConfig(sortConfig', columnId) = sortConfig
           ELSE sortConfig' = [key |-> columnId, direction |-> "desc"]]_vars

\* C14 witness: a column other than the initial one has been clicked and
\* clicked again.
C14_Witness == sortConfig = [key |-> "productCount", direction |-> "asc"]

\* C15: the view is a permutation of the filtered records, ordered by the
\* sort key in the sort direction, and sorting it again changes nothing.
C15_SortedPermutation ==
  Settled =>
    /\ Len(filteredKeywords) = Len(FilteredDataset)
    /\ \A i \in 1..Len(FilteredDataset) :
         Occurrences(filteredKeywords, FilteredDataset[i]) =
           Occurrences(FilteredDataset, FilteredDataset[i])
    /\ OrderedByKey(filteredKeywords, sortConfig.key, sortConfig.direction)
    /\ sortResult(filteredKeywords, sortConfig) = filteredKeywords

\* C15 witness: an ascending sort has put the filtered records in another
\* order than the dataset's.
C15_Witness ==
  /\ Settled
  /\ sortConfig.direction = "asc"
  /\ Len(filteredKeywords) = MaxSortLen
  /\ filteredKeywords # FilteredDataset

\* C16: records that tie on the sort key are in the view in the order they
\* have in the stored dataset, in either direction.
C16_StableSort ==
  Settled =>
    \A i \in 1..Len(filteredKeywords) : \A j \in (i + 1)..Len(filteredKeywords) :
      TiedOnKey(filteredKeywords[i], filteredKeywords[j], sortConfig.key) =>
        PositionInDataset(filteredKeywords[i]) < PositionInDataset(filteredKeywords[j])

\* C16 witness: an ascending sort has moved records and the view holds two
\* that tie on the key.
C16_Witness ==
  /\ Settled
  /\ sortConfig = [key |-> "searchVolume", direction |-> "asc"]
  /\ filteredKeywords # keywords
  /\ \E i \in 1..Len(filteredKeywords) : \E j \in (i + 1)..Len(filteredKeywords) :
       TiedOnKey(filteredKeywords[i], filteredKeywords[j], sortConfig.key)

\* C17: the callback of loadMore sets the visible count to the count plus
\* the increment, clamped to the length of the view, and a scroll signal
\* starts a loadMore only when the visible count is below that length.
C17_LoadMoreClamped ==
  [][/\ (CountKind("more")' < CountKind("more")) =>
          visibleKeywords' = Min(visibleKeywords + LoadIncrement, Len(filteredKeywords))
     /\ (CountKind("more")' > CountKind("more")) =>
          visibleKeywords < Len(filteredKeywords)]_vars

\* C18: the rows of the table are the first min(visible count, length of
\* the view) records of the view, in the view's order.
C18_VisibleSlicePrefix ==
  /\ Len(visibleSlice) = Min(visibleKeywords, Len(filteredKeywords))
  /\ \A i \in 1..Len(visibleSlice) : visibleSlice[i] = filteredKeywords[i]

\* C18 witness: the table shows a view that a filter has made shorter than
\* the visible count.
C18_Witness ==
  /\ ~isLoading
  /\ Settled
  /\ 0 < Len(filteredKeywords)
  /\ Len(filteredKeywords) < visibleKeywords
  /\ Len(filteredKeywords) < Len(keywords)

\* C19: the step that completes a dataset load leaves the sort
\* specification at search volume descending, with the record of maximum
\* search volume first in the view.
C19_LoadSortsByVolumeDesc ==
  [][(CountKind("load")' < CountKind("load")) =>
       /\ sortConfig' = DefaultSortConfig
       /\ \A i \in 1..Len(filteredKeywords') :
            filteredKeywords'[1].searchVolume >= filteredKeywords'[i].searchVolume]_vars

\* C21: the table shows no row and no spinner only over a loaded dataset
\* none of whose records satisfies the criteria; while nothing has been
\* loaded the spinner is up.
C21_EmptyResultOnlyWhenNoMatch ==
  /\ keywords = <<>> => isLoading
  /\ (Settled /\ ~isLoading /\ filteredKeywords = <<>>) =>
       /\ keywords # <<>>
       /\ \A i \in 1..Len(keywords) : ~MatchesCriteria(keywords[i])

\* C22: the key of the sort specification names a field of the Keyword
\* record.
C22_SortKeyIsKeywordField == KeyType(sortConfig.key) # "undefined"

\* C26: while a load timer is pending the loading flag is up.
C26_LoadingWhileLoadInFlight == LoadsInFlight # {} => isLoading

\* The identifiers of the children of a category, in tree order.
ChildrenOf(id) ==
  LET category == CategoryById(id)
  IN IF "children" \in DOMAIN category THEN CategoryIds(category.children) ELSE <<>>

\* C30: the selected path has one entry per level from 1, each a child of
\* the one before; the option lists have one entry per level from 1; the
\* list below the deepest selected category is there exactly when that
\* category has children.
C30_CategoryPath ==
  LET k == Len(selectedCategories)
      m == Len(categoryOptions)
  IN /\ \A l \in 1..k : selectedCategories[l].level = l
     /\ k > 0 => includes(CategoryIds(mockCategories), selectedCategories[1].id)
     /\ \A l \in 2..k :
          includes(ChildrenOf(selectedCategories[l - 1].id), selectedCategories[l].id)
     /\ \A l \in 1..m : categoryOptions[l].level = l
     /\ k > 0 =>
          ((\E l \in 1..m : categoryOptions[l].level = k + 1)
             <=> ChildrenOf(selectedCategories[k].id) # <<>>)

(***************************************************************************)
(* SpecStore: category loads, the sort button and the brand filter, on     *)
(* batches of at most MaxLen records.                                      *)
(***************************************************************************)
StoreCategoryInputs == { <<50>> }                           \* "2"
StoreSortInputs == { "productCount" }

NextStore ==
  \/ \E value \in StoreCategoryInputs : selectCategory(1, value)
  \/ \E i \in 1..Len(timers), draws \in SmallDraws : loadCompleted(i, draws)
  \/ \E columnId \in StoreSortInputs : handleSort(columnId)
  \/ \E value \in BrandInputs : handleBrandFilterChange(value)
  \/ runEffects

SpecStore == Init /\ [][NextStore]_vars

\* C23: the dataset changes only in the step that completes a load; the
\* records the filters keep are records of the dataset, each once, in the
\* order the dataset has them; once the effects have run, the view holds
\* those records and no other, each once.
C23_DatasetImmutable ==
  /\ [][keywords' # keywords => CountKind("load")' < CountKind("load")]_vars
  /\ [](/\ \A i \in 1..Len(FilteredDataset) :
             /\ Occurrences(keywords, FilteredDataset[i]) = 1
             /\ \A j \in (i + 1)..Len(FilteredDataset) :
                  PositionInDataset(FilteredDataset[i]) < PositionInDataset(FilteredDataset[j])
        /\ Settled =>
             /\ Len(filteredKeywords) = Len(FilteredDataset)
             /\ \A i \in 1..Len(FilteredDataset) :
                  Occurrences(filteredKeywords, FilteredDataset[i]) = 1)

\* C23 witness: over a loaded dataset the sort has put the view in another
\* order than the dataset's while a filter is narrowing nothing away.
C23_Witness ==
  /\ Settled
  /\ ~isLoading
  /\ Len(keywords) = MaxLen
  /\ Len(filteredKeywords) = Len(keywords)
  /\ filteredKeywords # keywords
  /\ sortConfig.key = "productCount"
  /\ brandFilter = <<StrBrand>>

(***************************************************************************)
(* SpecLookup: generateMockKeywords and findCategoryName as functions of   *)
(* the category identifier.  The page starts with its load timer set for   *)
(* any identifier of the tree or an identifier no category has; the timer  *)
(* callback generates the batch.                                           *)
(***************************************************************************)
UnknownIds == { <<57>>, <<49, 45, 57>> }                     \* "9", "1-9"
LookupIds == { AllCategories(mockCategories)[i].id :
                 i \in 1..Len(AllCategories(mockCategories)) } \cup UnknownIds
LookupDraws == [1..MaxLen -> DrawPool]

InitLookup ==
  /\ selectedCategories = << [id |-> <<49>>, name |-> <<54056, 49496, 51032, 47448>>, level |-> 1] >>
  /\ categoryOptions = << [level |-> 1, categories |-> CategoryIds(mockCategories)] >>
  /\ keywords = <<>>
  /\ filteredKeywords = <<>>
  /\ isLoading = TRUE
  /\ DefaultCriteria
  /\ visibleKeywords = InitialPageSize
  /\ isLoadingMore = FALSE
  /\ sortConfig = DefaultSortConfig
  /\ DefaultTable
  /\ \E categoryId \in LookupIds : timers = << LoadTimer(categoryId) >>
  /\ scrollListener = NoListener
  /\ pendingEffects = NoEffects

NextLookup ==
  \/ \E i \in 1..Len(timers), draws \in LookupDraws : loadCompleted(i, draws)
  \/ runEffects

SpecLookup == InitLookup /\ [][NextLookup]_vars

\* The name of the node of the tree that has the identifier, at whatever
\* depth; "" when no node has it.
NameInTree(categoryId) ==
  LET nodes == AllCategories(mockCategories)
      hits == { i \in 1..Len(nodes) : nodes[i].id = categoryId }
  IN IF hits = {} THEN EmptyStr ELSE nodes[CHOOSE i \in hits : TRUE].name

\* C24: the step that completes the load set for an identifier installs a
\* full batch, each record named after the category of that identifier in
\* the tree, with the empty label when the tree has no such category.
C24_NameResolutionTotal ==
  [][(CountKind("load")' < CountKind("load")) =>
       LET categoryId == timers[1].categoryId
       IN /\ Len(keywords') = MaxLen
          /\ \A i \in 1..Len(keywords') : \E n \in 1..MaxLen :
               /\ keywords'[i].id = categoryId \o StrKwInfix \o IntToStr(n)
               /\ keywords'[i].name =
                    NameInTree(categoryId) \o <<32>>
                      \o (IF keywords'[i].isBrand THEN StrBrandWord ELSE EmptyStr)
                      \o StrKeywordWord \o IntToStr(n)]_vars

\* C24 witness: the batch of an identifier no category has is loaded, its
\* records carrying the empty label.
C24_Witness ==
  /\ ~isLoading
  /\ Len(keywords) = MaxLen
  /\ IsBatchOf(keywords, <<49, 45, 57>>)
  /\ keywords[1].name[1] = 32

(***************************************************************************)
(* SpecBatch: category loads with the generator's own loop count, and the  *)
(* brand filter.                                                           *)
(***************************************************************************)
\* The loop of generateMockKeywords runs for i = 1 .. 500.
BatchSize == 500

\* The outcomes Math.random can go on giving, one draw per iteration asked
\* of it, spread over the ranges of the generator by a fixed recurrence per
\* seed; equal search volumes occur.
RandomStream(seed) ==
  [i \in 1..(BatchSize + MaxLoads) |->
    [isBrand |-> ((i + seed) % 3 = 0),
     searchType |-> IF (i + seed) % 2 = 0 THEN TypeShopping ELSE TypeInformational,
     searchVolume |-> 1000 + (((i * 7919 + seed * 10477) % 400) * 125),
     productCount |-> 100 + ((i * 613 + seed * 17) % 10000),
     competitionLevel |-> CASE (i + seed) % 4 = 0 -> CompLow
                            [] (i + seed) % 4 = 1 -> CompMedium
                            [] OTHER -> CompHigh]]

\* The draws the loop takes from the stream: `for (let i = 1; i <= 500; i++)`.
loopDrawsExclusive(random) == SubSeq(random, 1, BatchSize - 1)
loopDraws(random) == SubSeq(random, 1, BatchSize)

NextBatch ==
  \/ \E index \in 1..2, value \in CategoryInputs : selectCategory(index, value)
  \/ \E i \in 1..Len(timers), seed \in 1..MaxSeeds :
       loadCompleted(i, loopDraws(RandomStream(seed)))
  \/ \E value \in BrandInputs : handleBrandFilterChange(value)
  \/ runEffects

SpecBatch == Init /\ [][NextBatch]_vars

\* C25: a loaded dataset has exactly 500 records, no two with the same
\* identifier, in non-increasing order of search volume.
C25_FullDistinctSortedBatch ==
  keywords # <<>> =>
    /\ Len(keywords) = 500
    /\ Cardinality({ keywords[i].id : i \in 1..Len(keywords) }) = 500
    /\ \A i \in 1..(Len(keywords) - 1) :
         keywords[i].searchVolume >= keywords[i + 1].searchVolume

\* C25 witness: the batch of a category the user selected is loaded; it
\* has records of different and records of equal search volume.
C25_Witness ==
  /\ ~isLoading
  /\ IsBatchOf(keywords, <<50>>)
  /\ keywords[1].searchVolume > keywords[Len(keywords)].searchVolume
  /\ \E i \in 1..(Len(keywords) - 1) : keywords[i].searchVolume = keywords[i + 1].searchVolume

(***************************************************************************)
(* SpecMore: the infinite scroll with a category load, the brand filter    *)
(* and the sort button, on batches of MaxBatch records.  A timer callback  *)
(* runs once its delay has passed and the effects of a commit are flushed: *)
(* neither can be put off for ever by other events.                        *)
(***************************************************************************)
MoreCategoryInputs == { <<50>> }                            \* "2"
MoreSortInputs == { "avgPrice" }

NextMore ==
  \/ \E value \in MoreCategoryInputs : selectCategory(1, value)
  \/ \E i \in 1..Len(timers), seed \in 1..MaxSeeds : loadCompleted(i, SeedDraws(seed))
  \/ handleScroll
  \/ \E i \in 1..Len(timers) : loadMoreCompleted(i)
  \/ \E value \in BrandInputs : handleBrandFilterChange(value)
  \/ \E columnId \in MoreSortInputs : handleSort(columnId)
  \/ runEffects

SpecMore ==
  /\ Init
  /\ [][NextMore]_vars
  /\ WF_vars(runEffects)
  /\ SF_vars(\E i \in 1..Len(timers) : loadMoreCompleted(i))

\* C27: the loading-more guard is up only while a loadMore timer is
\* pending, and whenever it is up it comes down again.
C27_LoadingMoreNeverSticks ==
  /\ [](isLoadingMore => CountKind("more") > 0)
  /\ (isLoadingMore ~> ~isLoadingMore)

\* C27 witness: the guard is up while the brand filter and the sort have
\* been changed and a load of another category is in flight.
C27_Witness ==
  /\ isLoadingMore
  /\ CountKind("more") = 1
  /\ isLoading
  /\ brandFilter = <<StrBrand>>
  /\ sortConfig.key = "avgPrice"

(***************************************************************************)
(* SpecReset: every control of the filter card, the placeholder filters,   *)
(* the sort button and the layout of the table, on loaded batches of one   *)
(* record, with the reset button.                                          *)
(***************************************************************************)
ResetDraws == [1..1 -> DrawPool]
ResetTermInputs == { <<49>> }                               \* "1"
ResetVolumeFilterInputs == { StrCustom }
ResetMinInputs == { Preset10000 }
ResetMaxInputs == { Preset20000 }
ResetBrandInputs == { StrBrand }
ResetSearchTypeInputs == { TypeShopping }
ResetCompetitionInputs == { CompLow }
GenderInputs == { <<109, 97, 108, 101>> }                   \* "male"
AgeInputs == { <<50, 48>> }                                 \* "20"
MonthInputs == { <<51>> }                                   \* "3"
IncreaseInputs == { StrCustom }
CustomIncreaseInputs == { <<49, 48, 48>> }                  \* "100"
DragInputs == { <<"name", "rank">> }
ResizeInputs == { <<"name", 300>> }

InitReset == \E draws \in ResetDraws : LoadedWith(draws)

NextReset ==
  \/ \E value \in ResetTermInputs : setSearchTerm(value)
  \/ \E value \in ResetVolumeFilterInputs : setSearchVolumeFilter(value)
  \/ \E value \in ResetMinInputs : setMinSearchVolume(value)
  \/ \E value \in ResetMaxInputs : setMaxSearchVolume(value)
  \/ \E value \in ResetBrandInputs : handleBrandFilterChange(value)
  \/ \E value \in ResetSearchTypeInputs : handleSearchTypeFilterChange(value)
  \/ \E value \in ResetCompetitionInputs : handleCompetitionFilterChange(value)
  \/ \E value \in GenderInputs : setGenderFilter(value)
  \/ \E value \in AgeInputs : handleAgeFilterChange(value)
  \/ \E month \in MonthInputs : setBestSellingMonthFilter(month)
  \/ \E value \in IncreaseInputs : setSearchVolumeIncreaseFilter(value)
  \/ \E value \in CustomIncreaseInputs : setCustomSearchVolumeIncrease(value)
  \/ \E columnId \in SortKeyInputs : handleSort(columnId)
  \/ \E drag \in DragInputs : handleDragEnd(drag[1], drag[2])
  \/ \E resize \in ResizeInputs : handleColumnResize(resize[1], resize[2])
  \/ resetFilters
  \/ runEffects

SpecReset == InitReset /\ [][NextReset]_vars

\* C28: a step of resetFilters leaves every criterion at its default, so
\* that hasActiveFilters is false, and changes neither the sort
\* specification, the dataset, the category selection nor the order and
\* widths of the columns.
C28_ResetRestoresDefaults ==
  [][resetFilters =>
       /\ DefaultCriteria'
       /\ ~hasActiveFilters'
       /\ UNCHANGED <<sortConfig, keywords, selectedCategories, categoryOptions,
                      columns, columnWidths>>]_vars

\* C28 witness: the criteria are back at their defaults over a view that
\* is still the filtered one, under a sort, a column order and a column
\* width the user has set.
C28_Witness ==
  /\ DefaultCriteria
  /\ ~hasActiveFilters
  /\ pendingEffects.filter
  /\ Len(filteredKeywords) < Len(keywords)
  /\ sortConfig # DefaultSortConfig
  /\ columns # initialColumns
  /\ columnWidths # initialColumnWidths

\* C29: once the effects have run with hasActiveFilters false, the view
\* has as many records as the dataset.
C29_NoHiddenRestriction ==
  (Settled /\ ~hasActiveFilters) => Len(filteredKeywords) = Len(keywords)

\* C29 witness: the indicator is off and the view, recomputed under a
\* sort the user chose, holds the whole dataset in another order.
C29_Witness ==
  /\ Settled
  /\ ~hasActiveFilters
  /\ Len(keywords) = MaxLen
  /\ Len(filteredKeywords) = Len(keywords)
  /\ filteredKeywords # keywords
  /\ sortConfig.direction = "desc"
  /\ sortConfig.key = "productCount"

=============================================================================
